---- MODULE Spec2Model ----
(***************************************************************************)
(* gitsquash: interactive squashing of selected commits of a branch.       *)
(*                                                                         *)
(* The model follows src/unnamed/part_001 (the version of the tool with    *)
(* the classifier and the temporary-branch reconstruction).  The git       *)
(* backend is modelled as an object store of commits (parent, message,     *)
(* tree), two branch refs (the original branch and the temporary one), the  *)
(* checked-out branch, the index, the number of uncommitted files and the  *)
(* stash stack.  Every gateway call is one step and may fail.              *)
(***************************************************************************)
EXTENDS Integers, Sequences, FiniteSets, TLC

\* ------------------------------------------------------------------ bounds
MaxHist == 5          \* longest branch history of a real run
MaxFiles == 1         \* most uncommitted files reported by status
MaxPreviewHist == 11  \* longest branch history of a preview-only run

\* ------------------------------------------------------- program constants
DefaultCount == 10    \* parseInt(options.number) || 10
MinSelected == 2      \* validate: input.length < 2
PreviewMin == 10      \* Math.max(10, commits.length + 3)
PreviewExtra == 3     \* Math.max(10, commits.length + 3)

VARIABLES
  objs,          \* commit objects: objs[h] = [parent, msg, tree], h = hash
  refs,          \* branch name -> tip hash (0: the branch does not exist)
  head,          \* the checked-out branch
  index,         \* staged tree (the set of changes in the index)
  files,         \* status().files.length: uncommitted changes
  stash,         \* stash stack, newest first (each entry: a file count)
  number,        \* options.number (0: absent or unparsable)
  isDryRun,      \* options.dryRun
  listed,        \* main: commits (result of getRecentCommits)
  selected,      \* main: selectedCommits / squashCommits: commits
  message,       \* main: newMessage
  statusFiles,   \* squashCommits: status.files.length
  currentBranch, \* squashNonConsecutiveCommits: currentBranch
  laterCommits,  \* squashNonConsecutiveCommits: laterCommits
  oldestCommit,  \* oldestCommit of the running squash function
  queue,         \* commits still to cherry-pick in the running for-of loop
  newCommit,     \* squashNonConsecutiveCommits: newCommit
  pc,            \* position of the process
  exitCode,      \* process exit status (-1 while running)
  error,         \* the error being propagated ("none": no error)
  ops,           \* gateway operations issued so far, in order
  path,          \* which squash function squashCommits called
  callSizes,     \* sizes of the selections handed to classifier / squashers
  before0,       \* [tip, stash, files, refs] when main started
  printed        \* what the dry run printed: [before, after, details]

vars == <<objs, refs, head, index, files, stash, number, isDryRun, listed,
          selected, message, statusFiles, currentBranch, laterCommits,
          oldestCommit, queue, newCommit, pc, exitCode, error, ops, path,
          callSizes, before0, printed>>

repo == <<objs, refs, head, index, files, stash>>
ncLocals == <<currentBranch, laterCommits, oldestCommit, queue, newCommit>>
inputs == <<number, isDryRun, before0>>

\* ----------------------------------------------------------------- helpers
Min(a, b) == IF a < b THEN a ELSE b
Max(a, b) == IF a > b THEN a ELSE b

\* a reverse that leaves the array as it is
ReverseNot(s) == s

\* Array.prototype.reverse
Reverse(s) == [i \in 1..Len(s) |-> s[Len(s) + 1 - i]]

Range(s) == {s[i] : i \in 1..Len(s)}

\* s.slice(0, n)
Take(s, n) == SubSeq(s, 1, Min(n, Len(s)))

\* Array.prototype.indexOf: 0-based position of the first x, -1 when absent
IndexOf(s, x) ==
  IF x \in Range(s)
    THEN (CHOOSE i \in 1..Len(s) : s[i] = x /\ \A j \in 1..(i - 1) : s[j] # x) - 1
    ELSE -1

\* Array.prototype.includes
Includes(s, x) == x \in Range(s)

\* the elements of s at the positions in S, in the order of s
RECURSIVE PickAt(_, _, _)
PickAt(s, S, i) ==
  IF i > Len(s) THEN <<>>
  ELSE (IF i \in S THEN <<s[i]>> ELSE <<>>) \o PickAt(s, S, i + 1)

\* ------------------------------------------------------------ git backend
Tree(o, h) == IF h = 0 THEN {} ELSE o[h].tree
Parent(o, h) == IF h = 0 THEN 0 ELSE o[h].parent
\* the changes a commit introduces over its parent
Changes(o, h) == Tree(o, h) \ Tree(o, Parent(o, h))

\* git log from a tip: hashes, most recent first
RECURSIVE Log(_, _)
Log(o, h) == IF h = 0 THEN <<>> ELSE <<h>> \o Log(o, o[h].parent)

\* git log({ maxCount }) on the checked-out branch
GitLog(o, r, hd, maxCount) == Take(Log(o, r[hd]), maxCount)

\* a linear history of n commits: commit i has parent i-1, message i and
\* introduces change i
InitialObjs(n) == [i \in 1..n |-> [parent |-> i - 1, msg |-> i, tree |-> 1..i]]

Messages == {0}

NormalExit == 0       \* process.exit(0) / main returning
ErrorExit == 1        \* process.exit(1)

\* ------------------------------------------------------------- selectCommits
\* a validate that only rejects the empty answer
validateNonEmpty(input) == ~(Len(input) < 1)

\* validate of the checkbox prompt: the answer is accepted when this holds
validate(input) == ~(Len(input) < MinSelected)

\* the answers the checkbox prompt can produce: the checked choices, in the
\* order of the choices
Answers(commits) == {PickAt(commits, S, 1) : S \in SUBSET (1..Len(commits))}

\* ------------------------------------------- areCommitsLatestAndConsecutive
\* insert x behind every element whose position is not greater (stable)
RECURSIVE InsertByPosition(_, _, _)
InsertByPosition(sorted, x, recentCommits) ==
  IF sorted = <<>> THEN <<x>>
  ELSE IF IndexOf(recentCommits, Head(sorted)) - IndexOf(recentCommits, x) <= 0
    THEN <<Head(sorted)>> \o InsertByPosition(Tail(sorted), x, recentCommits)
    ELSE <<x>> \o sorted

\* [...commits].sort((a, b) => recentCommits.indexOf(a) - recentCommits.indexOf(b))
RECURSIVE SortByPosition(_, _)
SortByPosition(commits, recentCommits) ==
  IF commits = <<>> THEN <<>>
  ELSE InsertByPosition(SortByPosition(SubSeq(commits, 1, Len(commits) - 1), recentCommits),
                        commits[Len(commits)], recentCommits)

\* the classifier's loop without the sort (a comparison in listing order)
areCommitsLatestUnsorted(commits, recentCommits) ==
  \A i \in 1..Len(commits) : i <= Len(recentCommits) /\ commits[i] = recentCommits[i]

\* a classifier that only asks whether the tip is among the selected commits
areCommitsTipIncluded(commits, recentCommits) ==
  recentCommits # <<>> /\ Includes(commits, recentCommits[1])

\* recentCommits is git.log({ maxCount: commits.length }); an index past the
\* end of recentCommits reads undefined, which differs from every hash
areCommitsLatestAndConsecutive(commits, recentCommits) ==
  LET sortedSelectedCommits == SortByPosition(commits, recentCommits)
  IN  \A i \in 1..Len(commits) :
        i <= Len(recentCommits) /\ sortedSelectedCommits[i] = recentCommits[i]

\* ------------------------------------------------------------ dry-run lists
\* maxCount of the preview's log
PreviewWindow(commits) == Max(PreviewMin, Len(commits) + PreviewExtra)

\* "Current Commits": one line per commit of the log
PreviewBefore(o, log, commits) ==
  [i \in 1..Len(log) |->
     [hash |-> log[i], isSelected |-> Includes(commits, log[i]), msg |-> o[log[i]].msg]]

\* "After Squash": a NEW line for the oldest commit, nothing for the other
\* selected commits, one line for every other commit of the log
RECURSIVE PreviewAfter(_, _, _, _, _)
PreviewAfter(o, log, commits, oldest, msg) ==
  IF log = <<>> THEN <<>>
  ELSE LET c == Head(log)
           line == IF Includes(commits, c)
                     THEN IF c = oldest
                            THEN <<[kind |-> "NEW", hash |-> 0, msg |-> msg]>>
                            ELSE <<>>
                     ELSE <<[kind |-> "commit", hash |-> c, msg |-> o[c].msg]>>
       IN  line \o PreviewAfter(o, Tail(log), commits, oldest, msg)

\* "Details": the uncommitted-changes line is printed only when there are any
PreviewDetails(commits, msg, nfiles) ==
  [squashed |-> Len(commits), message |-> msg,
   uncommitted |-> IF nfiles > 0 THEN nfiles ELSE 0]

NoPrint == [before |-> <<>>, after |-> <<>>, details |-> <<>>]

\* ------------------------------------------------ squashNonConsecutiveCommits
\* the loop skipping the newest selected commit instead of stopping at it
RECURSIVE LaterCommitsNoBreak(_, _, _)
LaterCommitsNoBreak(o, log, newestSelectedCommit) ==
  IF log = <<>> THEN <<>>
  ELSE (IF Head(log) = newestSelectedCommit THEN <<>>
        ELSE <<[hash |-> Head(log), message |-> o[Head(log)].msg]>>)
       \o LaterCommitsNoBreak(o, Tail(log), newestSelectedCommit)

\* the loop over log.all that collects the commits above the newest selected
RECURSIVE LaterCommits(_, _, _)
LaterCommits(o, log, newestSelectedCommit) ==
  IF log = <<>> \/ Head(log) = newestSelectedCommit THEN <<>>
  ELSE <<[hash |-> Head(log), message |-> o[Head(log)].msg]>>
       \o LaterCommits(o, Tail(log), newestSelectedCommit)

\* ------------------------------------------------------ gateway operations
\* the commit `${hash}~1` names; 0 when there is none (the command fails)
ResolveParent(o, hash) == Parent(o, hash)

\* git commit / git cherry-pick create a commit on the checked-out branch
NewObject(o, r, hd, msg, tree) == Append(o, [parent |-> r[hd], msg |-> msg, tree |-> tree])

\* git checkout -b creating the branch without switching to it
HeadAfterBranchOnly(hd, name) == hd

\* git checkout -b name: name is created at HEAD and becomes the checked-out branch
HeadAfterCheckoutB(hd, name) == name

\* ------------------------------------------------------------- squashCommits
\* the order "stash first, then dry run"
AfterStatusStashFirst(dry, nfiles) ==
  IF nfiles > 0 THEN "stash" ELSE IF dry THEN "preview" ELSE "classify"

\* what squashCommits does after reading the status
AfterStatus(dry, nfiles) ==
  IF dry THEN "preview" ELSE IF nfiles > 0 THEN "stash" ELSE "classify"

\* a pop issued whatever the status was
AfterSquashAlwaysPop(nfiles) == "pop"

\* what squashCommits does after the squash function returned
AfterSquash(nfiles) == IF nfiles > 0 THEN "pop" ELSE "success"

\* a catch that reports the error and lets the process end normally
CatchExitSwallow == NormalExit

\* the exit status of the catch blocks
CatchExit == ErrorExit

\* ---------------------------------------------------------------- initial
InitWith(hists, numbers, dryRuns, stashes) ==
  /\ objs \in {InitialObjs(n) : n \in hists}
  /\ refs = [main |-> Len(objs), temp |-> 0]
  /\ head = "main"
  /\ index = 1..Len(objs)
  /\ files \in 0..MaxFiles
  /\ stash \in stashes
  /\ number \in numbers
  /\ isDryRun \in dryRuns
  /\ listed = <<>>
  /\ selected = <<>>
  /\ message = 0
  /\ statusFiles = 0
  /\ currentBranch = "none"
  /\ laterCommits = <<>>
  /\ oldestCommit = 0
  /\ queue = <<>>
  /\ newCommit = 0
  /\ pc = "start"
  /\ exitCode = -1
  /\ error = "none"
  /\ ops = <<>>
  /\ path = "none"
  /\ callSizes = {}
  /\ before0 = [tip |-> refs.main, stash |-> stash, files |-> files, refs |-> refs]
  /\ printed = NoPrint

Init == InitWith(0..MaxHist, 0..MaxHist, BOOLEAN, {<<>>, <<1>>})

\* ------------------------------------------------------------ step helpers
Issue(op) == ops' = Append(ops, op)

\* a handler that goes on to pop the stash after a rejection
ThrowThenPop(op) == /\ error' = op
                    /\ pc' = "pop"

\* an operation inside squashCommits' try block rejects
Throw(op) == /\ error' = op
             /\ pc' = "sq_catch"

\* an operation inside squashNonConsecutiveCommits' try block rejects
ThrowInner(op) == /\ error' = op
                  /\ pc' = "nc_catch_checkout"

Goto(l) == /\ pc' = l
           /\ UNCHANGED error

\* -------------------------------------------------------------------- main
\* getRecentCommits: git.log({ maxCount }); the read fails in a repository
\* without commits
GetRecentCommits ==
  /\ pc = "start"
  /\ Issue("log")
  /\ \E ok \in BOOLEAN :
       IF ok /\ refs[head] # 0
         THEN /\ listed' = GitLog(objs, refs, head, IF number # 0 THEN number ELSE DefaultCount)
              /\ Goto("count_check")
              /\ UNCHANGED exitCode
         ELSE /\ error' = "log"
              /\ pc' = "exited"
              /\ exitCode' = CatchExit
              /\ UNCHANGED listed
  /\ UNCHANGED <<repo, inputs, selected, message, statusFiles, ncLocals, path,
                 callSizes, printed>>

\* main: if (commits.length < 2) process.exit(0)
NotEnoughCommits ==
  /\ pc = "count_check"
  /\ IF Len(listed) < MinSelected
       THEN pc' = "exited" /\ exitCode' = NormalExit
       ELSE pc' = "select" /\ UNCHANGED exitCode
  /\ UNCHANGED <<repo, inputs, listed, selected, message, statusFiles, ncLocals,
                 error, ops, path, callSizes, printed>>

\* selectCommits: the prompt returns an answer that passes validate
SelectCommits ==
  /\ pc = "select"
  /\ \E input \in Answers(listed) :
       /\ validate(input)
       /\ selected' = input
  /\ pc' = "message"
  /\ UNCHANGED <<repo, inputs, listed, message, statusFiles, ncLocals, exitCode,
                 error, ops, path, callSizes, printed>>

\* getNewCommitMessage: the preset message or the prompted one
GetNewCommitMessage ==
  /\ pc = "message"
  /\ message' \in Messages
  /\ pc' = "status"
  /\ UNCHANGED <<repo, inputs, listed, selected, statusFiles, ncLocals, exitCode,
                 error, ops, path, callSizes, printed>>

\* ----------------------------------------------------------- squashCommits
\* oldestCommit = commits[commits.length - 1]; status = await git.status()
SquashStatus ==
  /\ pc = "status"
  /\ Issue("status")
  /\ \E ok \in BOOLEAN :
       IF ok
         THEN /\ statusFiles' = files
              /\ oldestCommit' = selected[Len(selected)]
              /\ Goto(AfterStatus(isDryRun, files))
         ELSE /\ Throw("status")
              /\ UNCHANGED <<statusFiles, oldestCommit>>
  /\ UNCHANGED <<repo, inputs, listed, selected, message, currentBranch,
                 laterCommits, queue, newCommit, exitCode, path, callSizes, printed>>

\* the dry-run branch: one more log, three printed lists, return
DryRunPreview ==
  /\ pc = "preview"
  /\ Issue("log")
  /\ \E ok \in BOOLEAN :
       IF ok
         THEN LET log == GitLog(objs, refs, head, PreviewWindow(selected))
              IN  /\ printed' = [before |-> PreviewBefore(objs, log, selected),
                                 after |-> PreviewAfter(objs, log, selected, oldestCommit, message),
                                 details |-> PreviewDetails(selected, message, statusFiles)]
                  /\ Goto("returned")
         ELSE /\ Throw("log")
              /\ UNCHANGED printed
  /\ UNCHANGED <<repo, inputs, listed, selected, message, statusFiles, ncLocals,
                 exitCode, path, callSizes>>

\* git.stash(['save', ...]) when the status reported uncommitted changes
StashSave ==
  /\ pc = "stash"
  /\ Issue("stash_save")
  /\ \E ok \in BOOLEAN :
       IF ok
         THEN /\ stash' = <<files>> \o stash
              /\ files' = 0
              /\ Goto("classify")
         ELSE /\ Throw("stash_save")
              /\ UNCHANGED <<stash, files>>
  /\ UNCHANGED <<objs, refs, head, index, inputs, listed, selected, message,
                 statusFiles, ncLocals, exitCode, path, callSizes, printed>>

\* useSimpleApproach = await areCommitsLatestAndConsecutive(commits)
Classify ==
  /\ pc = "classify"
  /\ Issue("log")
  /\ callSizes' = callSizes \cup {Len(selected)}
  /\ \E ok \in BOOLEAN :
       IF ok
         THEN LET useSimpleApproach ==
                    areCommitsLatestAndConsecutive(
                      selected, GitLog(objs, refs, head, Len(selected)))
              IN  /\ path' = IF useSimpleApproach THEN "fast" ELSE "general"
                  /\ Goto(IF useSimpleApproach THEN "fast_reset" ELSE "nc_branch")
         ELSE /\ Throw("log")
              /\ UNCHANGED path
  /\ UNCHANGED <<repo, inputs, listed, selected, message, statusFiles, ncLocals,
                 exitCode, printed>>

\* git.stash(['pop']) after the squash function returned
StashPop ==
  /\ pc = "pop"
  /\ Issue("stash_pop")
  /\ \E ok \in BOOLEAN :
       IF ok /\ stash # <<>>
         THEN /\ files' = Head(stash)
              /\ stash' = Tail(stash)
              /\ Goto("success")
         ELSE /\ Throw("stash_pop")
              /\ UNCHANGED <<stash, files>>
  /\ UNCHANGED <<objs, refs, head, index, inputs, listed, selected, message,
                 statusFiles, ncLocals, exitCode, path, callSizes, printed>>

\* the success line; squashCommits returns
SquashSucceeded ==
  /\ pc = "success"
  /\ pc' = "returned"
  /\ UNCHANGED <<repo, inputs, listed, selected, message, statusFiles, ncLocals,
                 exitCode, error, ops, path, callSizes, printed>>

\* catch (error) { console.error(...); process.exit(1) }
SquashCatch ==
  /\ pc = "sq_catch"
  /\ pc' = "exited"
  /\ exitCode' = CatchExit
  /\ UNCHANGED <<repo, inputs, listed, selected, message, statusFiles, ncLocals,
                 error, ops, path, callSizes, printed>>

\* main returns and the process ends
MainReturns ==
  /\ pc = "returned"
  /\ pc' = "exited"
  /\ exitCode' = NormalExit
  /\ UNCHANGED <<repo, inputs, listed, selected, message, statusFiles, ncLocals,
                 error, ops, path, callSizes, printed>>

\* ------------------------------------------------------ squashLatestCommits
\* oldestCommit = commits[commits.length - 1]; git.reset(['--soft', oldest~1])
FastReset ==
  /\ pc = "fast_reset"
  /\ Issue("reset_soft")
  /\ callSizes' = callSizes \cup {Len(selected)}
  /\ oldestCommit' = selected[Len(selected)]
  /\ \E ok \in BOOLEAN :
       IF ok /\ ResolveParent(objs, selected[Len(selected)]) # 0
         THEN /\ refs' = [refs EXCEPT ![head] = ResolveParent(objs, selected[Len(selected)])]
              /\ Goto("fast_commit")
         ELSE /\ Throw("reset_soft")
              /\ UNCHANGED refs
  /\ UNCHANGED <<objs, head, index, files, stash, inputs, listed, selected, message,
                 statusFiles, currentBranch, laterCommits, queue, newCommit,
                 exitCode, path, printed>>

\* git.commit(message)
FastCommit ==
  /\ pc = "fast_commit"
  /\ Issue("commit")
  /\ \E ok \in BOOLEAN :
       IF ok
         THEN /\ objs' = NewObject(objs, refs, head, message, index)
              /\ refs' = [refs EXCEPT ![head] = Len(objs) + 1]
              /\ Goto(AfterSquash(statusFiles))
         ELSE /\ Throw("commit")
              /\ UNCHANGED <<objs, refs>>
  /\ UNCHANGED <<head, index, files, stash, inputs, listed, selected, message,
                 statusFiles, ncLocals, exitCode, path, callSizes, printed>>

\* ---------------------------------------------- squashNonConsecutiveCommits
\* branchData = await git.branch(); currentBranch = branchData.current
NcBranch ==
  /\ pc = "nc_branch"
  /\ Issue("branch")
  /\ callSizes' = callSizes \cup {Len(selected)}
  /\ \E ok \in BOOLEAN :
       IF ok
         THEN currentBranch' = head /\ Goto("nc_log")
         ELSE Throw("branch") /\ UNCHANGED currentBranch
  /\ UNCHANGED <<repo, inputs, listed, selected, message, statusFiles,
                 laterCommits, oldestCommit, queue, newCommit, exitCode, path, printed>>

\* log = await git.log(); the loop that fills laterCommits
NcLog ==
  /\ pc = "nc_log"
  /\ Issue("log")
  /\ \E ok \in BOOLEAN :
       IF ok
         THEN /\ laterCommits' = LaterCommits(objs, Log(objs, refs[head]), selected[1])
              /\ Goto("nc_checkout_b")
         ELSE Throw("log") /\ UNCHANGED laterCommits
  /\ UNCHANGED <<repo, inputs, listed, selected, message, statusFiles,
                 currentBranch, oldestCommit, queue, newCommit, exitCode, path,
                 callSizes, printed>>

\* git.checkout(['-b', tempBranch]), before the try block
NcCheckoutB ==
  /\ pc = "nc_checkout_b"
  /\ Issue("checkout_b")
  /\ \E ok \in BOOLEAN :
       IF ok /\ refs.temp = 0
         THEN /\ refs' = [refs EXCEPT !.temp = refs[head]]
              /\ head' = HeadAfterCheckoutB(head, "temp")
              /\ Goto("nc_reset_hard")
         ELSE Throw("checkout_b") /\ UNCHANGED <<refs, head>>
  /\ UNCHANGED <<objs, index, files, stash, inputs, listed, selected, message,
                 statusFiles, ncLocals, exitCode, path, callSizes, printed>>

\* oldestCommit = commits[commits.length - 1]; git.reset(['--hard', oldest~1]);
\* on success the for-of loop starts on commits.reverse(), which reverses
\* commits in place
NcResetHard ==
  /\ pc = "nc_reset_hard"
  /\ Issue("reset_hard")
  /\ oldestCommit' = selected[Len(selected)]
  /\ \E ok \in BOOLEAN :
       IF ok /\ ResolveParent(objs, selected[Len(selected)]) # 0
         THEN /\ refs' = [refs EXCEPT ![head] = ResolveParent(objs, selected[Len(selected)])]
              /\ index' = Tree(objs, ResolveParent(objs, selected[Len(selected)]))
              /\ selected' = Reverse(selected)
              /\ queue' = Reverse(selected)
              /\ Goto("nc_pick")
         ELSE /\ ThrowInner("reset_hard")
              /\ UNCHANGED <<refs, index, selected, queue>>
  /\ UNCHANGED <<objs, head, files, stash, inputs, listed, message, statusFiles,
                 currentBranch, laterCommits, newCommit, exitCode, path,
                 callSizes, printed>>

\* git cherry-pick c on the checked-out branch: a new commit carrying the
\* message and the changes of c
CherryPick(c) ==
  /\ objs' = NewObject(objs, refs, head, objs[c].msg,
                       Tree(objs, refs[head]) \cup Changes(objs, c))
  /\ refs' = [refs EXCEPT ![head] = Len(objs) + 1]
  /\ index' = Tree(objs, refs[head]) \cup Changes(objs, c)

\* one iteration of: for (const commit of commits.reverse()) git.raw(['cherry-pick', commit])
NcPickSelected ==
  /\ pc = "nc_pick"
  /\ queue # <<>>
  /\ Issue("cherry_pick")
  /\ \E ok \in BOOLEAN :
       IF ok
         THEN /\ CherryPick(Head(queue))
              /\ queue' = Tail(queue)
              /\ Goto(IF Tail(queue) = <<>> THEN "nc_reset_soft" ELSE "nc_pick")
         ELSE /\ ThrowInner("cherry_pick")
              /\ UNCHANGED <<objs, refs, index, queue>>
  /\ UNCHANGED <<head, files, stash, inputs, listed, selected, message,
                 statusFiles, currentBranch, laterCommits, oldestCommit,
                 newCommit, exitCode, path, callSizes, printed>>

\* git.reset(['--soft', oldest~1]) on the temporary branch
NcResetSoft ==
  /\ pc = "nc_reset_soft"
  /\ Issue("reset_soft")
  /\ \E ok \in BOOLEAN :
       IF ok /\ ResolveParent(objs, oldestCommit) # 0
         THEN /\ refs' = [refs EXCEPT ![head] = ResolveParent(objs, oldestCommit)]
              /\ Goto("nc_commit")
         ELSE ThrowInner("reset_soft") /\ UNCHANGED refs
  /\ UNCHANGED <<objs, head, index, files, stash, inputs, listed, selected,
                 message, statusFiles, ncLocals, exitCode, path, callSizes, printed>>

\* git.commit(message) on the temporary branch
NcCommit ==
  /\ pc = "nc_commit"
  /\ Issue("commit")
  /\ \E ok \in BOOLEAN :
       IF ok
         THEN /\ objs' = NewObject(objs, refs, head, message, index)
              /\ refs' = [refs EXCEPT ![head] = Len(objs) + 1]
              /\ Goto("nc_revparse")
         ELSE ThrowInner("commit") /\ UNCHANGED <<objs, refs>>
  /\ UNCHANGED <<head, index, files, stash, inputs, listed, selected, message,
                 statusFiles, ncLocals, exitCode, path, callSizes, printed>>

\* newCommit = await git.revparse(['HEAD'])
NcRevParse ==
  /\ pc = "nc_revparse"
  /\ Issue("revparse")
  /\ \E ok \in BOOLEAN :
       IF ok
         THEN newCommit' = refs[head] /\ Goto("nc_checkout_orig")
         ELSE ThrowInner("revparse") /\ UNCHANGED newCommit
  /\ UNCHANGED <<repo, inputs, listed, selected, message, statusFiles,
                 currentBranch, laterCommits, oldestCommit, queue, exitCode,
                 path, callSizes, printed>>

\* git.checkout([currentBranch]) in phase 4
NcCheckoutOrig ==
  /\ pc = "nc_checkout_orig"
  /\ Issue("checkout")
  /\ \E ok \in BOOLEAN :
       IF ok
         THEN /\ head' = currentBranch
              /\ index' = Tree(objs, refs[currentBranch])
              /\ Goto("nc_orig_reset_hard")
         ELSE ThrowInner("checkout") /\ UNCHANGED <<head, index>>
  /\ UNCHANGED <<objs, refs, files, stash, inputs, listed, selected, message,
                 statusFiles, ncLocals, exitCode, path, callSizes, printed>>

\* git.reset(['--hard', oldest~1]) on the original branch
NcOrigResetHard ==
  /\ pc = "nc_orig_reset_hard"
  /\ Issue("reset_hard")
  /\ \E ok \in BOOLEAN :
       IF ok /\ ResolveParent(objs, oldestCommit) # 0
         THEN /\ refs' = [refs EXCEPT ![head] = ResolveParent(objs, oldestCommit)]
              /\ index' = Tree(objs, ResolveParent(objs, oldestCommit))
              /\ Goto("nc_pick_new")
         ELSE ThrowInner("reset_hard") /\ UNCHANGED <<refs, index>>
  /\ UNCHANGED <<objs, head, files, stash, inputs, listed, selected, message,
                 statusFiles, ncLocals, exitCode, path, callSizes, printed>>

\* git.raw(['cherry-pick', newCommit]); then, if (laterCommits.length > 0),
\* the loop starts on laterCommits.reverse(), which reverses it in place
NcPickNew ==
  /\ pc = "nc_pick_new"
  /\ Issue("cherry_pick")
  /\ \E ok \in BOOLEAN :
       IF ok
         THEN /\ CherryPick(newCommit)
              /\ IF Len(laterCommits) > 0
                   THEN /\ laterCommits' = Reverse(laterCommits)
                        /\ queue' = [i \in 1..Len(laterCommits) |->
                                       Reverse(laterCommits)[i].hash]
                        /\ Goto("nc_pick_later")
                   ELSE /\ UNCHANGED <<laterCommits, queue>>
                        /\ Goto("nc_delete")
         ELSE /\ ThrowInner("cherry_pick")
              /\ UNCHANGED <<objs, refs, index, laterCommits, queue>>
  /\ UNCHANGED <<head, files, stash, inputs, listed, selected, message,
                 statusFiles, currentBranch, oldestCommit, newCommit, exitCode,
                 path, callSizes, printed>>

\* one iteration of: for (const commit of laterCommits.reverse()) cherry-pick
NcPickLater ==
  /\ pc = "nc_pick_later"
  /\ queue # <<>>
  /\ Issue("cherry_pick")
  /\ \E ok \in BOOLEAN :
       IF ok
         THEN /\ CherryPick(Head(queue))
              /\ queue' = Tail(queue)
              /\ Goto(IF Tail(queue) = <<>> THEN "nc_delete" ELSE "nc_pick_later")
         ELSE /\ ThrowInner("cherry_pick")
              /\ UNCHANGED <<objs, refs, index, queue>>
  /\ UNCHANGED <<head, files, stash, inputs, listed, selected, message,
                 statusFiles, currentBranch, laterCommits, oldestCommit,
                 newCommit, exitCode, path, callSizes, printed>>

\* git.branch(['-D', tempBranch]); the function returns
NcDeleteTemp ==
  /\ pc = "nc_delete"
  /\ Issue("branch_delete")
  /\ \E ok \in BOOLEAN :
       IF ok /\ head # "temp"
         THEN /\ refs' = [refs EXCEPT !.temp = 0]
              /\ Goto(AfterSquash(statusFiles))
         ELSE ThrowInner("branch_delete") /\ UNCHANGED refs
  /\ UNCHANGED <<objs, head, index, files, stash, inputs, listed, selected,
                 message, statusFiles, ncLocals, exitCode, path, callSizes, printed>>

\* catch: git.checkout([currentBranch]); a failure here replaces the error
NcCatchCheckout ==
  /\ pc = "nc_catch_checkout"
  /\ Issue("checkout")
  /\ \E ok \in BOOLEAN :
       IF ok
         THEN /\ head' = currentBranch
              /\ index' = Tree(objs, refs[currentBranch])
              /\ Goto("nc_catch_delete")
         ELSE /\ Throw("cleanup_checkout")
              /\ UNCHANGED <<head, index>>
  /\ UNCHANGED <<objs, refs, files, stash, inputs, listed, selected, message,
                 statusFiles, ncLocals, exitCode, path, callSizes, printed>>

\* catch: git.branch(['-D', tempBranch]).catch(() => {}); throw error
NcCatchDelete ==
  /\ pc = "nc_catch_delete"
  /\ Issue("branch_delete")
  /\ \E ok \in BOOLEAN :
       IF ok /\ head # "temp" /\ refs.temp # 0
         THEN refs' = [refs EXCEPT !.temp = 0]
         ELSE UNCHANGED refs
  /\ pc' = "sq_catch"
  /\ UNCHANGED <<objs, head, index, files, stash, inputs, listed, selected,
                 message, statusFiles, ncLocals, exitCode, error, path,
                 callSizes, printed>>

\* ------------------------------------------------------------ specification
Next ==
  \/ GetRecentCommits
  \/ NotEnoughCommits
  \/ SelectCommits
  \/ GetNewCommitMessage
  \/ SquashStatus
  \/ DryRunPreview
  \/ StashSave
  \/ Classify
  \/ FastReset
  \/ FastCommit
  \/ NcBranch
  \/ NcLog
  \/ NcCheckoutB
  \/ NcResetHard
  \/ NcPickSelected
  \/ NcResetSoft
  \/ NcCommit
  \/ NcRevParse
  \/ NcCheckoutOrig
  \/ NcOrigResetHard
  \/ NcPickNew
  \/ NcPickLater
  \/ NcDeleteTemp
  \/ NcCatchCheckout
  \/ NcCatchDelete
  \/ StashPop
  \/ SquashSucceeded
  \/ SquashCatch
  \/ MainReturns

Spec == Init /\ [][Next]_vars

\* the preview alone: dry runs over histories longer than the preview window
InitPreview == InitWith(0..MaxPreviewHist, {0, MaxPreviewHist}, {TRUE}, {<<>>})

NextPreview ==
  \/ GetRecentCommits
  \/ NotEnoughCommits
  \/ SelectCommits
  \/ GetNewCommitMessage
  \/ SquashStatus
  \/ DryRunPreview
  \/ SquashCatch
  \/ MainReturns

SpecPreview == InitPreview /\ [][NextPreview]_vars

\* ================================================================== claims
\* the branch history main started with, most recent first
History0 == Log(objs, before0.tip)

\* 1-based position of a commit in the history main started with
Pos0(c) == IndexOf(History0, c) + 1

SelectedSet == Range(selected)

\* the selected commit farthest from the tip
OldestSelected == CHOOSE c \in SelectedSet : \A d \in SelectedSet : Pos0(d) <= Pos0(c)

\* what a commit is, apart from its hash: its message and the changes it makes
Content(o, h) == [msg |-> o[h].msg, changes |-> Changes(o, h)]

ContentLog(o, tip) == LET l == Log(o, tip) IN [i \in 1..Len(l) |-> Content(o, l[i])]

\* the original history with the selection replaced by one commit at the
\* place of the oldest selected commit
RECURSIVE Squashed(_)
Squashed(log) ==
  IF log = <<>> THEN <<>>
  ELSE (IF Head(log) \in SelectedSet
          THEN IF Head(log) = OldestSelected
                 THEN <<[msg |-> message,
                         changes |-> UNION {Changes(objs, c) : c \in SelectedSet}]>>
                 ELSE <<>>
          ELSE <<Content(objs, Head(log))>>)
       \o Squashed(Tail(log))

\* a real (not dry) run that ended with a successful squash
SquashDone == pc = "exited" /\ exitCode = NormalExit /\ ~isDryRun /\ path # "none"

\* the selection is, as a set, the |selection| most recent commits
IsLatestN == SelectedSet = Range(Take(History0, Len(selected)))

\* some unselected commit is newer than some selected commit
HasGap == \E u \in Range(History0) \ SelectedSet : Pos0(u) < Pos0(OldestSelected)

\* an unselected commit lies strictly between two selected commits
HasInterleaved ==
  \E u \in Range(History0) \ SelectedSet :
    \E a, b \in SelectedSet : Pos0(a) < Pos0(u) /\ Pos0(u) < Pos0(b)

CountOps(op) == Cardinality({i \in 1..Len(ops) : ops[i] = op})

MutatingOps == {"stash_save", "stash_pop", "reset_soft", "reset_hard", "commit",
                "checkout_b", "checkout", "cherry_pick", "branch_delete"}

HistoryOps == {"reset_soft", "reset_hard", "commit", "checkout_b", "checkout",
               "cherry_pick", "branch_delete"}

\* C1: after a successful squash the branch reads as the original history with
\* every unselected commit kept, in order and with its content, and the
\* selected commits replaced by one new commit at the place of the oldest
\* selected commit.
C1_SquashKeepsUnselected ==
  SquashDone => ContentLog(objs, refs.main) = Squashed(History0)

\* the same statement restricted to selections with no unselected commit
\* between two selected ones
C1_HoldsWithoutInterleaved ==
  (SquashDone /\ ~HasInterleaved) => ContentLog(objs, refs.main) = Squashed(History0)

\* C2: the fast path is run exactly for a selection that is the N most recent
\* commits, the general path exactly for a selection with a gap, and a
\* classified run is on one of the two paths.
C2_PathSelection ==
  /\ path = "fast" => (IsLatestN /\ ~HasGap)
  /\ path = "general" => (HasGap /\ ~IsLatestN)
  /\ pc \in {"fast_reset", "fast_commit"} => path = "fast"
  /\ pc \in {"nc_branch", "nc_log", "nc_checkout_b", "nc_reset_hard", "nc_pick",
             "nc_reset_soft", "nc_commit", "nc_revparse", "nc_checkout_orig",
             "nc_orig_reset_hard", "nc_pick_new", "nc_pick_later", "nc_delete",
             "nc_catch_checkout", "nc_catch_delete"} => path = "general"
  /\ path = "fast" => CountOps("checkout_b") = 0 /\ CountOps("cherry_pick") = 0
  /\ path = "general" => CountOps("reset_soft") <= 1
  /\ SquashDone => path \in {"fast", "general"}

C2_Witness_Fast == SquashDone /\ path = "fast" /\ Len(selected) = 3

C2_Witness == SquashDone /\ path = "general" /\ Len(History0) = MaxHist

\* C3: in the general path, as long as the hard reset of the original branch
\* has not been issued, the original branch's tip is the commit it was before
\* the run; in particular after a run that failed before that reset.
C3_RollbackBeforeTransplant ==
  (path = "general" /\ CountOps("reset_hard") < 2) => refs.main = before0.tip

C3_Witness ==
  /\ pc = "exited" /\ exitCode = ErrorExit /\ path = "general"
  /\ error = "cherry_pick" /\ CountOps("reset_hard") = 1 /\ CountOps("cherry_pick") = 2
  /\ refs.main = before0.tip

\* C4: a dry run issues only reads (log, status): the branches, the checked-out
\* branch, the commits, the stash and the uncommitted changes stay as they
\* were, and the preview reports the number of uncommitted changes.
C4_DryRunMutatesNothing ==
  isDryRun =>
    /\ \A i \in 1..Len(ops) : ops[i] \in {"log", "status"}
    /\ refs = before0.refs
    /\ head = "main"
    /\ Len(objs) = before0.tip
    /\ stash = before0.stash
    /\ files = before0.files
    /\ printed # NoPrint => printed.details.uncommitted = before0.files

C4_Witness ==
  /\ isDryRun /\ pc = "exited" /\ exitCode = NormalExit /\ printed # NoPrint
  /\ before0.files > 0 /\ printed.details.uncommitted = before0.files
  /\ HasGap

RECURSIVE Orderings(_)
Orderings(S) ==
  IF S = {} THEN {<<>>}
  ELSE UNION {{<<x>> \o p : p \in Orderings(S \ {x})} : x \in S}

\* C6: the classifier gives the same answer for every order in which the same
\* selected commits are listed.
C6_ClassifierOrderIndependent ==
  pc = "classify" =>
    LET recentCommits == GitLog(objs, refs, head, Len(selected))
    IN  \A p \in Orderings(SelectedSet) :
          areCommitsLatestAndConsecutive(p, recentCommits)
            = areCommitsLatestAndConsecutive(selected, recentCommits)

C6_Witness ==
  /\ pc = "classify" /\ Len(selected) = 3
  /\ areCommitsLatestAndConsecutive(Reverse(selected), GitLog(objs, refs, head, 3))
  /\ Reverse(selected) # selected

\* Scenario A: history [C5,C4,C3,C2,C1], selection {C4,C3}, squash succeeded
ScenarioA == SquashDone /\ before0.tip = 5 /\ SelectedSet = {4, 3}

ScenarioAResult ==
  <<[msg |-> 5, changes |-> {5}], [msg |-> message, changes |-> {3, 4}],
    [msg |-> 2, changes |-> {2}], [msg |-> 1, changes |-> {1}]>>

\* C7 as stated: Scenario A takes the fast path and ends with [C5, C_new, C2, C1].
C7_ScenarioA_FastPath ==
  ScenarioA => (path = "fast" /\ ContentLog(objs, refs.main) = ScenarioAResult)

\* C7 amended: Scenario A takes the general path (C5 is an unselected commit
\* newer than the selection) and ends with [C5, C_new, C2, C1], C_new carrying
\* the changes of C4 and C3 and C5 replayed on top of it.
C7_ScenarioA_GeneralPath ==
  ScenarioA =>
    /\ path = "general"
    /\ CountOps("checkout_b") = 1
    /\ ContentLog(objs, refs.main) = ScenarioAResult

C7_Witness == ScenarioA /\ path = "general" /\ Len(Log(objs, refs.main)) = 4

\* C8: the process ends with 0 after a successful squash, a completed dry run
\* or the early-out for fewer than 2 commits (which issued only the history
\* read and changed nothing), and with 1 exactly when an error was caught.
C8_ExitStatus ==
  /\ pc # "exited" => exitCode = -1
  /\ pc = "exited" =>
       /\ exitCode \in {NormalExit, ErrorExit}
       /\ (exitCode = ErrorExit) <=> (error # "none")
       /\ (exitCode = NormalExit /\ Len(listed) < MinSelected) =>
            /\ ops = <<"log">>
            /\ selected = <<>>
            /\ refs = before0.refs /\ stash = before0.stash /\ files = before0.files
       /\ (exitCode = NormalExit /\ Len(listed) >= MinSelected) =>
            \/ isDryRun /\ printed # NoPrint
            \/ /\ ~isDryRun /\ path \in {"fast", "general"}
               /\ ops[Len(ops)] \in {"commit", "branch_delete", "stash_pop"}

C8_Witness ==
  /\ pc = "exited" /\ exitCode = ErrorExit /\ error = "stash_pop"
  /\ path = "general" /\ refs.main # before0.tip

C8_Witness_EarlyOut == pc = "exited" /\ exitCode = NormalExit /\ Len(listed) = 1

\* C9: the classifier and both squash functions are only ever called with at
\* least 2 selected commits, and no mutating operation is issued for less.
C9_AtLeastTwoSelected ==
  /\ \A n \in callSizes : n >= 2
  /\ (\E i \in 1..Len(ops) : ops[i] \in MutatingOps) => Len(selected) >= 2
  /\ pc \notin {"start", "count_check", "select", "exited"} => Len(selected) >= 2

C9_Witness == callSizes = {2} /\ pc = "fast_commit" /\ Len(listed) = MaxHist

\* the commits the preview's log returns
PreviewLog == Take(History0, PreviewWindow(selected))

NewLines == {i \in 1..Len(printed.after) : printed.after[i].kind = "NEW"}

\* the unselected commits of the preview window, in order
UnselectedInWindow ==
  PickAt(PreviewLog, {i \in 1..Len(PreviewLog) : PreviewLog[i] \notin SelectedSet}, 1)

\* C10: for every selection made from the listed commits, the 'After Squash'
\* list has exactly one NEW line with the pending message, standing where the
\* oldest selected commit stood, every unselected commit of the window in
\* order, and no selected commit.
C10_PreviewShape ==
  printed # NoPrint =>
    /\ Cardinality(NewLines) = 1
    /\ \A i \in NewLines :
         /\ printed.after[i].msg = message
         /\ i = 1 + Cardinality({u \in Range(UnselectedInWindow) :
                                   Pos0(u) < Pos0(OldestSelected)})
    /\ LET kept == PickAt(printed.after,
                          {i \in 1..Len(printed.after) : i \notin NewLines}, 1)
       IN  [i \in 1..Len(kept) |-> kept[i].hash] = UnselectedInWindow
    /\ \A i \in 1..Len(printed.after) : printed.after[i].hash \notin SelectedSet

\* the same statement restricted to selections whose oldest commit is inside
\* the preview window
C10_HoldsInsideWindow ==
  (printed # NoPrint /\ Pos0(OldestSelected) <= PreviewWindow(selected))
    => C10_PreviewShape

\* the last n operations issued
LastOps(n) == IF Len(ops) < n THEN <<>> ELSE SubSeq(ops, Len(ops) - n + 1, Len(ops))

\* squashNonConsecutiveCommits threw: an operation of the general path (or of
\* its cleanup) failed
GeneralThrew ==
  /\ pc \in {"sq_catch", "exited"}
  /\ path = "general"
  /\ error \notin {"none", "stash_pop"}

\* the try block of squashNonConsecutiveCommits was entered
InsideTry == CountOps("reset_hard") >= 1

\* C11: when an operation fails inside squashNonConsecutiveCommits (here: inside
\* its try block, the temporary branch existing), the function checks out the
\* original branch and attempts the forced deletion of the temporary branch
\* before it throws, and what it throws is the error of the operation that
\* failed first, not an error of the cleanup.
C11_RollbackProcedure ==
  (GeneralThrew /\ InsideTry) =>
    /\ LastOps(2) = <<"checkout", "branch_delete">>
    /\ error # "cleanup_checkout"

\* the same statement for the runs whose cleanup checkout succeeds
C11_HoldsWhenCleanupCheckoutSucceeds ==
  (GeneralThrew /\ InsideTry /\ error # "cleanup_checkout")
    => LastOps(2) = <<"checkout", "branch_delete">>

\* C12: when squashLatestCommits fails, at the soft reset or at the commit, the
\* branch tip is the commit it was before the run and no new commit exists.
C12_FastPathNoPartialState ==
  (path = "fast" /\ error \in {"reset_soft", "commit"}) =>
    /\ refs.main = before0.tip
    /\ Len(objs) = before0.tip

\* the same statement for a failure at the soft reset only
C12_HoldsWhenResetFails ==
  (path = "fast" /\ error = "reset_soft") =>
    /\ refs.main = before0.tip
    /\ Len(objs) = before0.tip

\* ------------------------------------------------- answers in click order
\* the answers of a prompt that returns the checked choices in any order
AnswersAnyOrder(commits) == UNION {Orderings(S) : S \in SUBSET Range(commits)}

\* selectCommits when the prompt's answer lists the checked commits in an
\* order of its own (the code passes the answer on as it gets it)
SelectCommitsAnyOrder ==
  /\ pc = "select"
  /\ \E input \in AnswersAnyOrder(listed) :
       /\ validate(input)
       /\ selected' = input
  /\ pc' = "message"
  /\ UNCHANGED <<repo, inputs, listed, message, statusFiles, ncLocals, exitCode,
                 error, ops, path, callSizes, printed>>

NextAnyOrder ==
  \/ GetRecentCommits
  \/ NotEnoughCommits
  \/ SelectCommitsAnyOrder
  \/ GetNewCommitMessage
  \/ SquashStatus
  \/ DryRunPreview
  \/ StashSave
  \/ Classify
  \/ FastReset
  \/ FastCommit
  \/ NcBranch
  \/ NcLog
  \/ NcCheckoutB
  \/ NcResetHard
  \/ NcPickSelected
  \/ NcResetSoft
  \/ NcCommit
  \/ NcRevParse
  \/ NcCheckoutOrig
  \/ NcOrigResetHard
  \/ NcPickNew
  \/ NcPickLater
  \/ NcDeleteTemp
  \/ NcCatchCheckout
  \/ NcCatchDelete
  \/ StashPop
  \/ SquashSucceeded
  \/ SquashCatch
  \/ MainReturns

SpecAnyOrder == Init /\ [][NextAnyOrder]_vars

\* the anchor both paths are meant to reset to
Anchor == Parent(objs, OldestSelected)

NewestSelected == CHOOSE c \in SelectedSet : \A d \in SelectedSet : Pos0(c) <= Pos0(d)

\* the commits strictly newer than the newest selected commit, newest first
NewerThanSelection == SubSeq(History0, 1, Pos0(NewestSelected) - 1)

\* C15: laterCommits is exactly the commits strictly newer than the newest
\* selected commit, and after a successful general-path run the branch reads,
\* oldest first: the parent of the oldest selected commit with its ancestors
\* (unchanged), the one squashed commit, then every later commit replayed in
\* its original order, the newest of them being the tip.
C15_LaterCommitsReplayed ==
  /\ pc \in {"nc_checkout_b", "nc_reset_hard", "nc_pick", "nc_reset_soft",
             "nc_commit", "nc_revparse", "nc_checkout_orig",
             "nc_orig_reset_hard", "nc_pick_new"} =>
       [i \in 1..Len(laterCommits) |-> laterCommits[i].hash] = NewerThanSelection
  /\ (SquashDone /\ path = "general") =>
       LET l == Log(objs, refs.main)
           k == Len(NewerThanSelection)
       IN  /\ Len(l) = k + 1 + Len(Log(objs, Anchor))
           /\ SubSeq(l, k + 2, Len(l)) = Log(objs, Anchor)
           /\ Content(objs, l[k + 1]) =
                [msg |-> message,
                 changes |-> UNION {Changes(objs, c) : c \in SelectedSet}]
           /\ \A i \in 1..k : Content(objs, l[i]) = Content(objs, NewerThanSelection[i])

C15_Witness ==
  /\ SquashDone /\ path = "general" /\ Len(laterCommits) = 2
  /\ Content(objs, refs.main) = Content(objs, before0.tip)
  /\ refs.main # before0.tip

\* ------------------------------------- the branch moving under the prompts
\* message and change id of a commit made by another git process
ExternalMsg == -1

ExternalCommits == {h \in DOMAIN objs : objs[h].msg = ExternalMsg}

\* main is between getRecentCommits and the first operation of squashCommits
\* (the prompts are open); nothing in the code holds the branch still
PromptsOpen == pc \in {"select", "message", "status"}

\* another process commits on the branch
ExternalCommit ==
  /\ PromptsOpen
  /\ ExternalCommits = {}
  /\ objs' = Append(objs, [parent |-> refs[head], msg |-> ExternalMsg,
                           tree |-> Tree(objs, refs[head]) \cup {ExternalMsg}])
  /\ refs' = [refs EXCEPT ![head] = Len(objs) + 1]
  /\ index' = Tree(objs, refs[head]) \cup {ExternalMsg}
  /\ UNCHANGED <<head, files, stash, inputs, listed, selected, message,
                 statusFiles, ncLocals, pc, exitCode, error, ops, path,
                 callSizes, printed>>

\* another process amends the tip commit: the old tip leaves the history
ExternalAmend ==
  /\ PromptsOpen
  /\ ExternalCommits = {}
  /\ refs[head] # 0
  /\ objs' = Append(objs, [parent |-> Parent(objs, refs[head]), msg |-> ExternalMsg,
                           tree |-> Tree(objs, refs[head]) \cup {ExternalMsg}])
  /\ refs' = [refs EXCEPT ![head] = Len(objs) + 1]
  /\ index' = Tree(objs, refs[head]) \cup {ExternalMsg}
  /\ UNCHANGED <<head, files, stash, inputs, listed, selected, message,
                 statusFiles, ncLocals, pc, exitCode, error, ops, path,
                 callSizes, printed>>

NextConcurrent ==
  \/ Next
  \/ ExternalCommit
  \/ ExternalAmend

SpecConcurrent == Init /\ [][NextConcurrent]_vars

\* the branch history squashCommits works on: the one left by the other
\* process when there was one
ExecHistory ==
  IF ExternalCommits = {} THEN History0
  ELSE Log(objs, CHOOSE h \in ExternalCommits : TRUE)

\* a selected commit is gone from the history or stands at another position
\* than in the history the selection was made from
SelectionStale ==
  selected # <<>> /\ \E c \in SelectedSet : IndexOf(ExecHistory, c) # IndexOf(History0, c)

\* C16: when the branch history changed between getRecentCommits and the
\* squash so that a selected commit is gone or at another position, no
\* history-mutating operation is issued for that selection.
C16_StaleSelectionNotSquashed ==
  SelectionStale => \A i \in 1..Len(ops) : ops[i] \notin HistoryOps

\* with the history unchanged no selection is stale
C16_NeverStaleWithoutExternalChange == ExternalCommits = {} => ~SelectionStale

\* the stash save was issued and succeeded
StashSaved == CountOps("stash_save") = 1 /\ error # "stash_save"

\* an operation of the squash failed (not the save, not the pop)
SquashFailed == error \notin {"none", "stash_save", "stash_pop"}

\* C17: when a stash was saved and a later operation of the squash fails, on
\* either path, no stash pop is issued, the process exits with 1 and the saved
\* entry, holding the uncommitted changes, is still on top of the stash stack.
C17_StashLeftOnFailure ==
  (StashSaved /\ SquashFailed) =>
    /\ CountOps("stash_pop") = 0
    /\ stash = <<before0.files>> \o before0.stash
    /\ files = 0
    /\ pc \in {"sq_catch", "nc_catch_checkout", "nc_catch_delete", "exited"}
    /\ pc = "exited" => exitCode = ErrorExit

C17_Witness ==
  /\ pc = "exited" /\ exitCode = ErrorExit /\ StashSaved /\ error = "commit"
  /\ path = "fast" /\ stash = <<before0.files>> \o before0.stash /\ before0.files > 0

\* position in ops of the cleanup checkout of the catch block (0: none); it is
\* the last checkout issued once the catch block has run
LastCheckout ==
  IF CountOps("checkout") = 0 THEN 0
  ELSE CHOOSE i \in 1..Len(ops) :
         ops[i] = "checkout" /\ \A j \in (i + 1)..Len(ops) : ops[j] # "checkout"

\* the general path failed at a cherry-pick issued after the hard reset of the
\* original branch, and the run is over
TransplantPickFailed ==
  /\ pc = "exited" /\ path = "general" /\ exitCode = ErrorExit
  /\ error \in {"cherry_pick", "cleanup_checkout"}
  /\ LastCheckout > 1
  /\ ops[LastCheckout - 1] = "cherry_pick"
  /\ Cardinality({i \in 1..LastCheckout : ops[i] = "reset_hard"}) = 2

\* the messages of the commits on the original branch
SummariesOnBranch == {objs[h].msg : h \in Range(Log(objs, refs.main))}

\* the original branch is left mid-rewrite: another tip, the old tip off the
\* branch, and not every later commit back on it
LeftMidRewrite ==
  /\ refs.main # before0.tip
  /\ before0.tip \notin Range(Log(objs, refs.main))
  /\ Len(Log(objs, refs.main)) < Len(Log(objs, Anchor)) + 1 + Len(NewerThanSelection)
  /\ NewerThanSelection # <<>> => objs[NewerThanSelection[1]].msg \notin SummariesOnBranch

\* C18: when a cherry-pick fails after the hard reset of the original branch,
\* the run ends with the original branch at another tip than before, without
\* the later commits not yet replayed, and with the temporary branch deleted.
C18_RecoveryGap ==
  TransplantPickFailed => (LeftMidRewrite /\ refs.temp = 0)

\* the same statement without the deletion of the temporary branch
C18_HoldsForOriginalBranch == TransplantPickFailed => LeftMidRewrite

\* squashNonConsecutiveCommits has returned or thrown
GeneralOver ==
  /\ path = "general"
  /\ pc \in {"pop", "success", "returned", "sq_catch", "exited"}

\* C19: whenever squashNonConsecutiveCommits returns or throws, the temporary
\* branch no longer exists and the checked-out branch is the original one.
C19_NoTempBranchLeft ==
  GeneralOver => (refs.temp = 0 /\ head = "main")

\* the same statement for the runs in which the function returned
C19_HoldsOnReturn ==
  (GeneralOver /\ error \in {"none", "stash_pop"}) => (refs.temp = 0 /\ head = "main")

\* the answer the selection was made with (the checked commits in list order)
Answer == PickAt(listed, {i \in 1..Len(listed) : listed[i] \in SelectedSet}, 1)

\* the 'After Squash' list a dry run prints for the history and the answer of
\* this run
PreviewOfThisRun ==
  PreviewAfter(objs, Take(History0, PreviewWindow(Answer)), Answer,
               Answer[Len(Answer)], message)

\* C20: the 'After Squash' list of a dry run is, line by line (position and
\* summary), the branch history a successful real squash of the same
\* selection produces.
C20_PreviewMatchesResult ==
  SquashDone =>
    LET after == PreviewOfThisRun
        result == Log(objs, refs.main)
    IN  /\ Len(History0) <= PreviewWindow(Answer) => Len(after) = Len(result)
        /\ \A i \in 1..Len(after) :
             i <= Len(result) /\ after[i].msg = objs[result[i]].msg

\* the same statement for selections with no unselected commit between two
\* selected ones
C20_HoldsWithoutInterleaved ==
  (SquashDone /\ ~HasInterleaved) => C20_PreviewMatchesResult

====
